---- MODULE Spec2Model ----
(***************************************************************************)
(* MOXA buzzer library (mx_buzzer.c): one foreground caller invoking       *)
(* mx_buzzer_init / mx_buzzer_play_sound / mx_buzzer_stop_sound serially,  *)
(* and the wait_and_stop threads created by timed playbacks.  Every access *)
(* to the shared statics (lib_initialized, the buzzer struct) and every     *)
(* library call is one step, so that every interleaving of the caller    *)
(* with the threads is a behaviour.                                        *)
(***************************************************************************)
EXTENDS Integers, FiniteSets, Sequences, TLC

\* ---------------------------------------------------------------- bounds
\* Number of wait_and_stop threads that can exist at the same time; when
\* all are in use pthread_create fails with EAGAIN.
MaxThreads == 2

\* ------------------------------------------------------ program constants
DURATION_KEEP == 0
MAX_DURATION == 60
EAGAIN == 11

\* CONF_VER_SUPPORTED "1.0.*" as sscanf("%d.%d.%*s") reads it
CONF_VER_SUPPORTED == <<1, 0>>

\* Durations the caller passes to mx_buzzer_play_sound
DurationInputs == {0, 2, 61}

\* Negative codes the GPIO library (mx_gpio_*) can return
GpioErrors == {"E_SYSFUNCERR", "E_GPIO_NOTEXP"}

\* Contents of /etc/moxa-configs/moxa-buzzer-control.json: whether the file
\* loads, and the two keys.  ver is the list of integers in CONFIG_VERSION
\* ("1.0.5" is <<1, 0, 5>>, "" is << >>, "1" is <<1>>).
NoConfig == [loaded |-> FALSE, hasVer |-> FALSE, ver |-> << >>, hasGpio |-> FALSE, gpio |-> 0]
Cfg(v, g) == [loaded |-> TRUE, hasVer |-> TRUE, ver |-> v, hasGpio |-> g, gpio |-> IF g THEN 60 ELSE 0]
Configs ==
  { NoConfig,
    [loaded |-> TRUE, hasVer |-> FALSE, ver |-> << >>, hasGpio |-> TRUE, gpio |-> 60],
    Cfg(<<1, 0, 0>>, TRUE), Cfg(<<1, 0, 5>>, TRUE), Cfg(<<2, 0, 0>>, TRUE),
    Cfg(<<1, 1, 0>>, TRUE), Cfg(<< >>, TRUE), Cfg(<<1>>, TRUE),
    Cfg(<<1, 0, 0>>, FALSE) }

VARIABLES
  lib_initialized,  \* static int lib_initialized
  config,           \* static struct json_object *config: "NULL" or "object"
  gpio_num,         \* buzzer.gpio_num
  thread,           \* buzzer.thread: slot of the thread last created, 0 = never set
  is_playing,       \* buzzer.is_playing
  duration,         \* buzzer.duration
  threads,          \* the wait_and_stop threads, by slot
  line,             \* level of the GPIO line
  exported,         \* the pin is exported in sysfs
  direction,        \* direction of the pin
  pc,               \* position of the foreground caller
  arg,              \* the duration parameter of the play call in progress or last rejected
  ret,              \* value returned by the last finished call
  from,             \* position of the caller before its last step
  session,          \* history: the playback the last successful play started
  lowWriters        \* history: who wrote the line low during that playback

vars == <<lib_initialized, config, gpio_num, thread, is_playing, duration,
          threads, line, exported, direction, pc, arg, ret, from, session,
          lowWriters>>

Slots == 1..MaxThreads

\* A slot with no thread in it (never created, finished or cancelled).
\* wt and el are the thread's waiting_time and ts - ts_start; d (history) is
\* the duration of the play call that created it, cur (history) whether it
\* belongs to the current playback.
NoThread == [pc |-> "free", wt |-> 0, el |-> 0, d |-> 0, cancel |-> FALSE, cur |-> FALSE]

Alive(i) == threads[i].pc # "free"

Init ==
  /\ lib_initialized = 0
  /\ config = "NULL"
  /\ gpio_num = 0
  /\ thread = 0
  /\ is_playing = 0
  /\ duration = 0
  /\ threads = [i \in Slots |-> NoThread]
  /\ line = "low"
  /\ exported \in BOOLEAN
  /\ direction = "in"
  /\ pc = "idle"
  /\ arg = 0
  /\ ret = "E_SUCCESS"
  /\ from = "idle"
  /\ session = "none"
  /\ lowWriters = {}

\* The caller moves to position p inside the call
Goto(p) == /\ pc' = p
           /\ from' = pc
           /\ UNCHANGED <<arg, ret>>

\* A call without a duration parameter is entered at position p
Enter(p) == /\ pc' = p
            /\ from' = pc
            /\ arg' = 0
            /\ UNCHANGED ret

\* The call returns r
Return(r) == /\ pc' = "idle"
             /\ from' = pc
             /\ arg' = 0
             /\ ret' = r

\* mx_buzzer_play_sound returns r from its checks; the rejected duration
\* stays visible until the next call.
Reject(r) == /\ pc' = "idle"
             /\ from' = pc
             /\ ret' = r
             /\ UNCHANGED arg

\* ------------------------------------------------------------------ time
\* One time unit passes: time(NULL) grows by one for every thread that has
\* taken ts_start.  el is ts - ts_start, kept up to the thread's
\* waiting_time or the duration it was created for (past them nothing
\* depends on it), and not for a thread with a cancellation pending, which
\* ends in its next sleep without looking at the time.
Tick ==
  /\ threads' = [i \in Slots |->
        IF /\ threads[i].pc \in {"sleep"}
           /\ ~threads[i].cancel
           /\ (threads[i].el < threads[i].wt \/ threads[i].el < threads[i].d)
        THEN [threads[i] EXCEPT !.el = @ + 1] ELSE threads[i]]
  /\ UNCHANGED <<lib_initialized, config, gpio_num, thread, is_playing,
                 duration, line, exported, direction, pc, arg, ret, from,
                 session, lowWriters>>

\* --------------------------------------------------------- mx_buzzer_init
\* check_config_version_supported: the values it can return for a
\* CONFIG_VERSION holding the integers ver.  sscanf returns EOF on the empty
\* string; with a single integer cv[1] is read uninitialized.
check_config_version_supported(ver) ==
  IF Len(ver) = 0 THEN {"E_SYSFUNCERR"}
  ELSE IF Len(ver) = 1
       THEN IF ver[1] # CONF_VER_SUPPORTED[1] THEN {"E_UNSUPCONFVER"}
            ELSE {"E_SUCCESS", "E_UNSUPCONFVER"}
       ELSE IF ver[1] # CONF_VER_SUPPORTED[1] \/ ver[2] # CONF_VER_SUPPORTED[2]
            THEN {"E_UNSUPCONFVER"}
            ELSE {"E_SUCCESS"}

InitCall ==
  /\ pc = "idle"
  /\ Enter("init")
  /\ UNCHANGED <<lib_initialized, config, gpio_num, thread, is_playing,
                 duration, threads, line, exported, direction, session,
                 lowWriters>>

\* Variant of the binding that sets lib_initialized before the result of
\* mx_gpio_set_direction is tested.
InitBind_flag_early(cfg, exp, dir) ==
  /\ config' = IF cfg.loaded THEN "object" ELSE "NULL"
  /\ IF ~cfg.loaded \/ ~cfg.hasVer
     THEN /\ Return("E_CONFERR")
          /\ UNCHANGED <<lib_initialized, gpio_num, is_playing, line, exported, direction>>
     ELSE \E v \in check_config_version_supported(cfg.ver) :
       IF v # "E_SUCCESS"
       THEN /\ Return(v)
            /\ UNCHANGED <<lib_initialized, gpio_num, is_playing, line, exported, direction>>
       ELSE IF ~cfg.hasGpio
       THEN /\ Return("E_CONFERR")
            /\ UNCHANGED <<lib_initialized, gpio_num, is_playing, line, exported, direction>>
       ELSE /\ gpio_num' = cfg.gpio
            /\ IF ~exported /\ exp # "E_SUCCESS"
               THEN /\ Return(exp)
                    /\ UNCHANGED <<lib_initialized, is_playing, line, exported, direction>>
               ELSE /\ exported' = TRUE
                    /\ is_playing' = 0
                    /\ lib_initialized' = 1
                    /\ IF dir # "E_SUCCESS"
                       THEN /\ Return(dir)
                            /\ UNCHANGED <<line, direction>>
                       ELSE /\ direction' = "out"
                            /\ line' = "low"
                            /\ Return("E_SUCCESS")

\* The binding of mx_buzzer_init (lines 189-217) on the configuration cfg;
\* exp and dir are what mx_gpio_export and mx_gpio_set_direction return.
InitBind(cfg, exp, dir) ==
  /\ config' = IF cfg.loaded THEN "object" ELSE "NULL"
  /\ IF ~cfg.loaded \/ ~cfg.hasVer
     THEN /\ Return("E_CONFERR")
          /\ UNCHANGED <<lib_initialized, gpio_num, is_playing, line, exported, direction>>
     ELSE \E v \in check_config_version_supported(cfg.ver) :
       IF v # "E_SUCCESS"
       THEN /\ Return(v)
            /\ UNCHANGED <<lib_initialized, gpio_num, is_playing, line, exported, direction>>
       ELSE IF ~cfg.hasGpio
       THEN /\ Return("E_CONFERR")
            /\ UNCHANGED <<lib_initialized, gpio_num, is_playing, line, exported, direction>>
       ELSE /\ gpio_num' = cfg.gpio
            /\ IF ~exported /\ exp # "E_SUCCESS"
               THEN /\ Return(exp)
                    /\ UNCHANGED <<lib_initialized, is_playing, line, exported, direction>>
               ELSE /\ exported' = TRUE
                    /\ IF dir # "E_SUCCESS"
                       THEN /\ Return(dir)
                            /\ UNCHANGED <<lib_initialized, is_playing, line, direction>>
                       ELSE /\ direction' = "out"
                            /\ line' = "low"
                            /\ is_playing' = 0
                            /\ lib_initialized' = 1
                            /\ Return("E_SUCCESS")

\* Variant of mx_buzzer_init without the lib_initialized test of lines
\* 186-187: every call binds again.
InitRun_rebinds ==
  /\ pc = "init"
  /\ \E cfg \in Configs, exp, dir \in {"E_SUCCESS"} \cup GpioErrors :
       InitBind(cfg, exp, dir)
  /\ UNCHANGED <<thread, duration, threads, session, lowWriters>>

InitRun ==
  /\ pc = "init"
  /\ IF lib_initialized # 0
     THEN /\ Return("E_SUCCESS")
          /\ UNCHANGED <<lib_initialized, config, gpio_num, is_playing, line,
                         exported, direction>>
     ELSE \E cfg \in Configs, exp, dir \in {"E_SUCCESS"} \cup GpioErrors :
            InitBind(cfg, exp, dir)
  /\ UNCHANGED <<thread, duration, threads, session, lowWriters>>

\* ------------------------------------------------- mx_buzzer_play_sound
PlayCall(d) ==
  /\ pc = "idle"
  /\ pc' = "play_check"
  /\ from' = pc
  /\ arg' = d
  /\ UNCHANGED <<lib_initialized, config, gpio_num, thread, is_playing,
                 duration, threads, line, exported, direction, ret, session,
                 lowWriters>>

\* Variants of the checks of mx_buzzer_play_sound with one check wrong:
\* no is_playing check, a bound one too high, no lib_initialized check.
play_precheck_no_playing(initialized, playing, d) ==
  IF initialized = 0 THEN "E_LIBNOTINIT"
  ELSE IF d > MAX_DURATION THEN "E_INVAL"
  ELSE "pass"

play_precheck_bound_plus_one(initialized, playing, d) ==
  IF initialized = 0 THEN "E_LIBNOTINIT"
  ELSE IF playing # 0 THEN "E_BUZZER_PLAYING"
  ELSE IF d > MAX_DURATION + 1 THEN "E_INVAL"
  ELSE "pass"

play_precheck_no_init(initialized, playing, d) ==
  IF playing # 0 THEN "E_BUZZER_PLAYING"
  ELSE IF d > MAX_DURATION THEN "E_INVAL"
  ELSE "pass"

\* Variant with the bound tested before is_playing
play_precheck_bound_first(initialized, playing, d) ==
  IF initialized = 0 THEN "E_LIBNOTINIT"
  ELSE IF d > MAX_DURATION THEN "E_INVAL"
  ELSE IF playing # 0 THEN "E_BUZZER_PLAYING"
  ELSE "pass"

\* The checks of lines 224-237, in the code's order: the error returned, or
\* "pass" when the call goes on to the GPIO write.
play_precheck(initialized, playing, d) ==
  IF initialized = 0 THEN "E_LIBNOTINIT"
  ELSE IF playing # 0 THEN "E_BUZZER_PLAYING"
  ELSE IF d > MAX_DURATION THEN "E_INVAL"
  ELSE "pass"

PlayCheck ==
  /\ pc = "play_check"
  /\ LET r == play_precheck(lib_initialized, is_playing, arg)
     IN  IF r = "pass" THEN Goto("play_gpio") ELSE Reject(r)
  /\ UNCHANGED <<lib_initialized, config, gpio_num, thread, is_playing,
                 duration, threads, line, exported, direction, session,
                 lowWriters>>

\* Line 239: mx_gpio_set_value(gpio_num, GPIO_VALUE_HIGH) returning r.
\* History: a new playback starts, the threads of earlier ones are stale.
PlayGpio ==
  /\ pc = "play_gpio"
  /\ \E r \in {"E_SUCCESS"} \cup GpioErrors :
       IF r # "E_SUCCESS"
       THEN /\ Return(r)
            /\ UNCHANGED <<line, threads, lowWriters>>
       ELSE /\ line' = "high"
            /\ threads' = [i \in Slots |-> [threads[i] EXCEPT !.cur = FALSE]]
            /\ lowWriters' = {}
            /\ Goto("play_arm")
  /\ UNCHANGED <<lib_initialized, config, gpio_num, thread, is_playing,
                 duration, exported, direction, session>>

FreeSlots == {i \in Slots : ~Alive(i)}

\* The value the test of line 245-246 compares with 0: pthread_create
\* returns 0 or a positive error number.
create_failed(rc) == rc < 0

\* Lines 243-250: buzzer.duration = duration, then pthread_create unless
\* the duration is DURATION_KEEP.  rc is what pthread_create returns; it
\* succeeds only when a thread can still be created.
PlayArm ==
  /\ pc = "play_arm"
  /\ duration' = arg
  /\ IF arg # DURATION_KEEP
     THEN \E rc \in {0, EAGAIN} :
            /\ rc = 0 => FreeSlots # {}
            /\ IF rc = 0
               THEN LET s == CHOOSE i \in FreeSlots : \A j \in FreeSlots : i <= j
                    IN  /\ threads' = [threads EXCEPT ![s] =
                              [pc |-> "start", wt |-> 0, el |-> 0, d |-> arg,
                               cancel |-> FALSE, cur |-> TRUE]]
                        /\ thread' = s
               ELSE UNCHANGED <<threads, thread>>
            /\ IF create_failed(rc) THEN Return("E_SYSFUNCERR") ELSE Goto("play_set")
     ELSE /\ UNCHANGED <<threads, thread>>
          /\ Goto("play_set")
  /\ UNCHANGED <<lib_initialized, config, gpio_num, is_playing, line,
                 exported, direction, session, lowWriters>>

\* Lines 252-253
PlaySet ==
  /\ pc = "play_set"
  /\ is_playing' = 1
  /\ session' = IF duration = DURATION_KEEP THEN "indef" ELSE "timed"
  /\ Return("E_SUCCESS")
  /\ UNCHANGED <<lib_initialized, config, gpio_num, thread, duration,
                 threads, line, exported, direction, lowWriters>>

\* ------------------------------------------------- mx_buzzer_stop_sound
StopCall ==
  /\ pc = "idle"
  /\ Enter("stop_check")
  /\ session' = IF session = "none" THEN "none" ELSE "stopped"
  /\ UNCHANGED <<lib_initialized, config, gpio_num, thread, is_playing,
                 duration, threads, line, exported, direction, lowWriters>>

\* Variant of the checks of mx_buzzer_stop_sound that goes on to the GPIO
\* write whether or not the buzzer is playing.
stop_precheck_always_stops(initialized, playing) ==
  IF initialized = 0 THEN "E_LIBNOTINIT" ELSE "pass"

\* The checks of lines 260-266: the value returned, or "pass" when the call
\* goes on to stop the playback.
stop_precheck(initialized, playing) ==
  IF initialized = 0 THEN "E_LIBNOTINIT"
  ELSE IF playing = 0 THEN "E_SUCCESS"
  ELSE "pass"

StopCheck ==
  /\ pc = "stop_check"
  /\ LET r == stop_precheck(lib_initialized, is_playing)
     IN  IF r = "pass" THEN Goto("stop_cancel") ELSE Return(r)
  /\ UNCHANGED <<lib_initialized, config, gpio_num, thread, is_playing,
                 duration, threads, line, exported, direction, session,
                 lowWriters>>

\* Lines 268-269: pthread_cancel(buzzer.thread) for a timed playback.  The
\* request stays pending until the thread reaches a cancellation point; on
\* a finished thread it does nothing.  This step is taken when buzzer.thread
\* holds a thread id.  The waiting locals of the cancelled thread are
\* dropped: it ends at its next cancellation point whatever they hold.
StopCancel ==
  /\ pc = "stop_cancel"
  /\ duration # DURATION_KEEP => thread # 0
  /\ threads' = IF duration # DURATION_KEEP /\ Alive(thread)
                THEN [threads EXCEPT ![thread].cancel = TRUE, ![thread].wt = 0,
                                     ![thread].el = 0, ![thread].d = 0]
                ELSE threads
  /\ Goto("stop_gpio")
  /\ UNCHANGED <<lib_initialized, config, gpio_num, thread, is_playing,
                 duration, line, exported, direction, session, lowWriters>>

\* Lines 268-269 when no thread was ever created (pthread_create failed on
\* the first timed playback): pthread_cancel gets the zero pthread_t of the
\* static struct, which is undefined; it returns ESRCH or the process dies.
StopCancelNoThread ==
  /\ pc = "stop_cancel"
  /\ duration # DURATION_KEEP
  /\ thread = 0
  /\ \/ /\ Goto("stop_gpio")
        /\ UNCHANGED threads
     \/ /\ pc' = "crashed"
        /\ from' = pc
        /\ threads' = [i \in Slots |-> NoThread]
        /\ UNCHANGED <<arg, ret>>
  /\ UNCHANGED <<lib_initialized, config, gpio_num, thread, is_playing,
                 duration, line, exported, direction, session, lowWriters>>

\* Line 271: mx_gpio_set_value(gpio_num, GPIO_VALUE_LOW) returning r
StopGpio ==
  /\ pc = "stop_gpio"
  /\ \E r \in {"E_SUCCESS"} \cup GpioErrors :
       IF r # "E_SUCCESS"
       THEN /\ Return(r)
            /\ UNCHANGED <<line, lowWriters>>
       ELSE /\ line' = "low"
            /\ lowWriters' = lowWriters \cup {"stop"}
            /\ Goto("stop_set")
  /\ UNCHANGED <<lib_initialized, config, gpio_num, thread, is_playing,
                 duration, threads, exported, direction, session>>

\* Lines 275-276
StopSet ==
  /\ pc = "stop_set"
  /\ is_playing' = 0
  /\ Return("E_SUCCESS")
  /\ UNCHANGED <<lib_initialized, config, gpio_num, thread, duration,
                 threads, line, exported, direction, session, lowWriters>>

\* ---------------------------------------------------------- wait_and_stop
\* The thread in slot i ends (it returned, or a pending cancellation was
\* acted on at a cancellation point).
Ended(i) == [threads EXCEPT ![i] = NoThread]

\* Lines 159-162: waiting_time = *((int *) arg), read from buzzer.duration
\* when the thread first runs, and ts_start = time(NULL).
T_Start(i) ==
  /\ threads[i].pc = "start"
  /\ threads' = [threads EXCEPT ![i].wt = duration, ![i].el = 0, ![i].pc = "sleep"]
  /\ UNCHANGED <<lib_initialized, config, gpio_num, thread, is_playing,
                 duration, line, exported, direction, pc, arg, ret, from,
                 session, lowWriters>>

\* The loop condition of line 166
keep_waiting(elapsed, waiting_time) == elapsed < waiting_time

\* Lines 163-166: sleep(1) is a cancellation point; it returns after a
\* second or earlier when a signal interrupts it, then the elapsed time
\* decides whether the loop goes on.  The locals are dead after the loop.
T_Sleep(i) ==
  /\ threads[i].pc = "sleep"
  /\ threads' = IF threads[i].cancel THEN Ended(i)
                ELSE IF keep_waiting(threads[i].el, threads[i].wt) THEN threads
                ELSE [threads EXCEPT ![i].pc = "gpio", ![i].wt = 0, ![i].el = 0,
                                     ![i].d = 0]
  /\ UNCHANGED <<lib_initialized, config, gpio_num, thread, is_playing,
                 duration, line, exported, direction, pc, arg, ret, from,
                 session, lowWriters>>

\* Variant of the thread's GPIO write in which the write is made although a
\* cancellation is pending (no cancellation point before the write).
T_Gpio_no_cancel_point(i) ==
  /\ threads[i].pc = "gpio"
  /\ \E r \in {"E_SUCCESS"} \cup GpioErrors :
       IF r # "E_SUCCESS"
       THEN /\ threads' = [threads EXCEPT ![i] = NoThread]
            /\ UNCHANGED <<line, lowWriters>>
       ELSE /\ line' = "low"
            /\ lowWriters' = IF threads[i].cur THEN lowWriters \cup {"task"}
                             ELSE lowWriters
            /\ threads' = [threads EXCEPT ![i].pc = "gpio_ret"]
  /\ UNCHANGED <<lib_initialized, config, gpio_num, thread, is_playing,
                 duration, exported, direction, pc, arg, ret, from, session>>

\* Line 168: mx_gpio_set_value(gpio_num, GPIO_VALUE_LOW) returning r.  It
\* opens the sysfs value file first, a cancellation point; on failure the
\* thread prints and returns (lines 169-170).
T_Gpio(i) ==
  /\ threads[i].pc = "gpio"
  /\ IF threads[i].cancel
     THEN /\ threads' = Ended(i)
          /\ UNCHANGED <<line, lowWriters>>
     ELSE \E r \in {"E_SUCCESS"} \cup GpioErrors :
            IF r # "E_SUCCESS"
            THEN /\ threads' = Ended(i)
                 /\ UNCHANGED <<line, lowWriters>>
            ELSE /\ line' = "low"
                 /\ lowWriters' = IF threads[i].cur THEN lowWriters \cup {"task"}
                                  ELSE lowWriters
                 /\ threads' = [threads EXCEPT ![i].pc = "gpio_ret"]
  /\ UNCHANGED <<lib_initialized, config, gpio_num, thread, is_playing,
                 duration, exported, direction, pc, arg, ret, from, session>>

\* Line 168, the end of the successful mx_gpio_set_value: it closes the
\* file, the last cancellation point of the thread.
T_GpioRet(i) ==
  /\ threads[i].pc = "gpio_ret"
  /\ threads' = IF threads[i].cancel THEN Ended(i)
                ELSE [threads EXCEPT ![i].pc = "set"]
  /\ UNCHANGED <<lib_initialized, config, gpio_num, thread, is_playing,
                 duration, line, exported, direction, pc, arg, ret, from,
                 session, lowWriters>>

\* Lines 173-174: buzzer.is_playing = 0 and return; no cancellation point
T_Set(i) ==
  /\ threads[i].pc = "set"
  /\ is_playing' = 0
  /\ threads' = Ended(i)
  /\ UNCHANGED <<lib_initialized, config, gpio_num, thread, duration, line,
                 exported, direction, pc, arg, ret, from, session, lowWriters>>

ThreadStep == \E i \in Slots :
  T_Start(i) \/ T_Sleep(i) \/ T_Gpio(i) \/ T_GpioRet(i) \/ T_Set(i)

\* --------------------------------------------------------- specification
Next ==
  \/ InitCall \/ InitRun
  \/ \E d \in DurationInputs : PlayCall(d)
  \/ PlayCheck \/ PlayGpio \/ PlayArm \/ PlaySet
  \/ StopCall \/ StopCheck \/ StopCancel \/ StopCancelNoThread
  \/ StopGpio \/ StopSet
  \/ ThreadStep
  \/ Tick

Spec == Init /\ [][Next]_vars

TypeOK ==
  /\ lib_initialized \in {0, 1}
  /\ is_playing \in {0, 1}
  /\ duration \in 0..MAX_DURATION
  /\ thread \in 0..MaxThreads
  /\ line \in {"low", "high"}
  /\ pc \in {"idle", "init", "play_check", "play_gpio", "play_arm", "play_set",
             "stop_check", "stop_cancel", "stop_gpio", "stop_set", "crashed"}
  /\ session \in {"none", "timed", "indef", "stopped"}
  /\ lowWriters \subseteq {"stop", "task"}

\* ================================================================ claims
\* The shared state a rejected call must leave alone
buzzerState == <<lib_initialized, config, gpio_num, thread, is_playing,
                 duration, threads, line, exported, direction>>

\* No call is in progress and no thread is between its GPIO write and its
\* is_playing update.
Quiescent ==
  /\ pc = "idle"
  /\ \A i \in Slots : threads[i].pc \notin {"gpio_ret", "set"}

\* A thread is armed: created, neither finished nor asked to cancel
Armed(i) == Alive(i) /\ ~threads[i].cancel

\* The thread of the current playback is still pending
TaskPending == \E i \in Slots : Alive(i) /\ threads[i].cur

\* C1: status is Playing (is_playing = 1) iff the GPIO line is driven high.
\* Stated for the states where no call is in progress and no thread is in
\* the middle of its own transition, where the claim has to hold under any
\* reading.
C1_PlayingIffLineHigh ==
  Quiescent => (is_playing = 1 <=> line = "high")

\* C2: during one playback, stop() and the auto-stop thread of that
\* playback never both perform the GPIO-low write.
C2_OneLowWrite ==
  lowWriters # {"stop", "task"}

\* C3: a timed playback that play() reported started, with no stop() called
\* since, has returned to Idle with the line low once its auto-stop thread
\* is no longer pending (the finite form of "eventually returns to Idle").
C3_TimedPlaybackEnds ==
  (pc = "idle" /\ session = "timed" /\ ~TaskPending)
     => (is_playing = 0 /\ line = "low")

\* C4: after a successful play(0), as long as no stop() is called, no task
\* of the playback exists and the device stays Playing with the line high.
C4_IndefiniteStaysPlaying ==
  session = "indef" => (~TaskPending /\ is_playing = 1 /\ line = "high")

\* C5: the checks of play() on a Playing device return E_BUZZER_PLAYING and
\* leave status, duration, the thread handle, the threads and the line as
\* they were.
C5_PlayWhilePlayingRejected ==
  [][(pc = "play_check" /\ pc' # pc /\ lib_initialized = 1 /\ is_playing = 1)
       => (pc' = "idle" /\ ret' = "E_BUZZER_PLAYING" /\ UNCHANGED buzzerState)]_vars

\* C5 witness: play() was rejected during a timed playback whose thread is
\* still armed.
C5_Witness ==
  /\ pc = "idle" /\ from = "play_check" /\ ret = "E_BUZZER_PLAYING"
  /\ is_playing = 1 /\ duration # DURATION_KEEP /\ line = "high"
  /\ \E i \in Slots : Armed(i) /\ threads[i].cur

\* C6: the checks of play(d) with d > 60 on an initialized Idle device
\* return E_INVAL at once: no GPIO write, status Idle, no thread created.
C6_TooLongRejected ==
  [][(pc = "play_check" /\ pc' # pc /\ lib_initialized = 1 /\ is_playing = 0
        /\ arg > 60)
       => (pc' = "idle" /\ ret' = "E_INVAL" /\ is_playing' = 0
           /\ UNCHANGED buzzerState)]_vars

\* C6 witness: play(d > 60) was rejected on an Idle device, the line low
C6_Witness ==
  /\ pc = "idle" /\ from = "play_check" /\ ret = "E_INVAL"
  /\ lib_initialized = 1 /\ is_playing = 0 /\ line = "low"

\* C7: while lib_initialized is 0, the checks of play() and of stop() return
\* E_LIBNOTINIT and change nothing; no thread exists and the line is never
\* driven.
C7_NotInitializedRejected ==
  [][(pc \in {"play_check", "stop_check"} /\ pc' # pc /\ lib_initialized = 0)
       => (pc' = "idle" /\ ret' = "E_LIBNOTINIT" /\ UNCHANGED buzzerState
           /\ line = "low" /\ is_playing = 0 /\ \A i \in Slots : ~Alive(i))]_vars

\* C7 witness: a call was rejected after an initialize() that failed at the
\* GPIO export or direction step (gpio_num is set, the library is not
\* initialized).
C7_Witness ==
  /\ pc = "idle" /\ from \in {"play_check", "stop_check"} /\ ret = "E_LIBNOTINIT"
  /\ lib_initialized = 0 /\ gpio_num # 0

\* C8: the checks of stop() on an initialized device that is not Playing
\* return E_SUCCESS and change nothing: no GPIO write, no cancellation.
C8_StopWhenIdleIsNoop ==
  [][(pc = "stop_check" /\ pc' # pc /\ lib_initialized = 1 /\ is_playing = 0)
       => (pc' = "idle" /\ ret' = "E_SUCCESS" /\ UNCHANGED buzzerState)]_vars

\* C8 witness: stop() returned from its checks on an Idle device
C8_Witness ==
  /\ pc = "idle" /\ from = "stop_check" /\ ret = "E_SUCCESS"
  /\ lib_initialized = 1 /\ is_playing = 0 /\ line = "low"

\* C9: a play() or stop() whose GPIO write fails returns the error with
\* status as it was when the call was made: 0 for play(), 1 for stop().
C9_FailedCallKeepsStatus ==
  [][/\ (pc = "play_gpio" /\ pc' = "idle")
          => (ret' \in GpioErrors /\ is_playing' = 0)
     /\ (pc = "stop_gpio" /\ pc' = "idle")
          => (ret' \in GpioErrors /\ is_playing' = 1)]_vars

\* C10: when a thread is armed, status is Playing and the duration is not
\* DURATION_KEEP.  Stated for the states with no call in progress.
C10_ArmedImpliesPlaying ==
  pc = "idle" =>
    \A i \in Slots : Armed(i) => (is_playing = 1 /\ duration # DURATION_KEEP)

\* A thread that can still act on the buzzer: it is not asked to cancel, or
\* it is past its last cancellation point.
AbleToRun(i) == Alive(i) /\ (~threads[i].cancel \/ threads[i].pc = "set")

\* C11: at most one auto-stop thread that is still able to run exists at
\* any moment.
C11_AtMostOneTask ==
  Cardinality({i \in Slots : AbleToRun(i)}) <= 1

\* The thread has not started its GPIO-low write
BeforeWrite(i) == threads[i].pc \in {"start", "sleep", "gpio"}

C13_InitTwiceIsNoop ==
  [][(pc = "init" /\ pc' # pc /\ lib_initialized = 1)
       => (pc' = "idle" /\ ret' = "E_SUCCESS" /\ UNCHANGED buzzerState)]_vars

\* C13 witness: mx_buzzer_init returned during a timed playback, the buzzer
\* still Playing and its thread still armed.
C13_Witness ==
  /\ pc = "idle" /\ from = "init" /\ ret = "E_SUCCESS"
  /\ is_playing = 1 /\ line = "high"
  /\ \E i \in Slots : Armed(i) /\ threads[i].cur

\* What initialize() has to return on the configuration cfg when export and
\* set-direction would return exp and dir: the error of the first failing
\* step.  A CONFIG_VERSION without major.minor is a failure of the version
\* step or is taken as supported.
InitRest(cfg, exp, dir) ==
  IF ~cfg.hasGpio THEN {"E_CONFERR"}
  ELSE IF ~exported /\ exp # "E_SUCCESS" THEN {exp}
  ELSE IF dir # "E_SUCCESS" THEN {dir}
  ELSE {"E_SUCCESS"}

InitExpected(cfg, exp, dir) ==
  IF ~cfg.loaded \/ ~cfg.hasVer THEN {"E_CONFERR"}
  ELSE IF Len(cfg.ver) < 2
       THEN {"E_SYSFUNCERR", "E_UNSUPCONFVER"} \cup InitRest(cfg, exp, dir)
  ELSE IF cfg.ver[1] # 1 \/ cfg.ver[2] # 0 THEN {"E_UNSUPCONFVER"}
  ELSE InitRest(cfg, exp, dir)

\* C14: an initialize() on an uninitialized library returns the error of
\* its first failing step, and when it returns an error the library is
\* still uninitialized (so the next initialize() binds again) with no
\* playback; it becomes initialized only when E_SUCCESS is returned.
C14_FailedInitStaysUninitialized ==
  [][(pc = "init" /\ lib_initialized = 0) =>
       \A cfg \in Configs, exp \in {"E_SUCCESS"} \cup GpioErrors,
          dir \in {"E_SUCCESS"} \cup GpioErrors :
         InitBind(cfg, exp, dir)
           => /\ pc' = "idle"
              /\ ret' \in InitExpected(cfg, exp, dir)
              /\ ret' # "E_SUCCESS" => (lib_initialized' = 0 /\ is_playing' = 0)
              /\ ret' = "E_SUCCESS" => lib_initialized' = 1]_vars

\* C14 witness: initialize() failed at the set-direction step, after the
\* config was read and the pin exported, and the library is uninitialized.
C14_Witness ==
  /\ pc = "idle" /\ from = "init" /\ ret \in GpioErrors
  /\ lib_initialized = 0 /\ config = "object" /\ gpio_num = 60 /\ exported

\* C15: play(d) tests not-initialized, then already-Playing, then d > 60,
\* and the first test that fails decides the error; a call that passes all
\* three (d = 0 included) goes on to the GPIO write.
C15_CheckOrder ==
  [][(pc = "play_check" /\ pc' # pc)
       => /\ lib_initialized = 0
               => (pc' = "idle" /\ ret' = "E_LIBNOTINIT")
          /\ (lib_initialized = 1 /\ is_playing = 1)
               => (pc' = "idle" /\ ret' = "E_BUZZER_PLAYING")
          /\ (lib_initialized = 1 /\ is_playing = 0 /\ arg > 60)
               => (pc' = "idle" /\ ret' = "E_INVAL")
          /\ (lib_initialized = 1 /\ is_playing = 0 /\ arg <= 60)
               => pc' = "play_gpio"]_vars

\* C15 witness: play(61) on a Playing device was rejected as already playing
C15_Witness ==
  /\ pc = "idle" /\ from = "play_check" /\ arg = 61
  /\ ret = "E_BUZZER_PLAYING" /\ lib_initialized = 1 /\ is_playing = 1

\* The status of the spec's state machine
Status(initialized, playing) ==
  IF initialized = 0 THEN "Uninitialized"
  ELSE IF playing # 0 THEN "Playing" ELSE "Idle"

\* The thread in slot i, of the current playback, runs line 173 and returns
CurrentTaskSets(i) ==
  /\ threads[i].pc = "set" /\ threads[i].cur
  /\ threads'[i].pc = "free"

\* C16: status changes only by a successful initialize() (Uninitialized ->
\* Idle), a successful play() (Idle -> Playing), a successful stop() or the
\* auto-stop thread of the current playback (Playing -> Idle).
C16_StatusEdges ==
  [][LET old == Status(lib_initialized, is_playing)
         new == Status(lib_initialized', is_playing')
     IN  old # new =>
           \/ /\ old = "Uninitialized" /\ new = "Idle"
              /\ pc = "init" /\ pc' = "idle" /\ ret' = "E_SUCCESS"
           \/ /\ old = "Idle" /\ new = "Playing"
              /\ pc = "play_set" /\ pc' = "idle" /\ ret' = "E_SUCCESS"
           \/ /\ old = "Playing" /\ new = "Idle"
              /\ pc = "stop_set" /\ pc' = "idle" /\ ret' = "E_SUCCESS"
           \/ /\ old = "Playing" /\ new = "Idle"
              /\ pc' = pc
              /\ \E i \in Slots : CurrentTaskSets(i)]_vars

\* C17: a thread leaves its waiting loop (and so writes the line low and
\* sets is_playing = 0) only when the time elapsed since it started is at
\* least the duration passed to the play() call that created it.
C17_WaitsFullDuration ==
  [][\A i \in Slots :
       (threads[i].pc = "sleep" /\ threads'[i].pc = "gpio")
          => threads[i].el >= threads[i].d]_vars

\* A playback started by a successful play() is going on: play() returned
\* E_SUCCESS, stop() was not called since, and is_playing is still 1.
PlaybackGoingOn == session \in {"timed", "indef"} /\ is_playing = 1

\* The thread in slot i writes the line low (line 168)
TaskWritesLow(i) ==
  threads[i].pc = "gpio" /\ threads'[i].pc = "gpio_ret"

\* The thread in slot i runs line 173
TaskSetsIdle(i) ==
  threads[i].pc = "set" /\ threads'[i].pc = "free"

\* C18: a thread created by an earlier playback never writes the line low
\* nor sets is_playing = 0 during a later playback.
C18_StaleTaskNoEffect ==
  [][\A i \in Slots :
       (PlaybackGoingOn /\ Alive(i) /\ ~threads[i].cur)
          => ~TaskWritesLow(i) /\ ~TaskSetsIdle(i)]_vars

\* C19: when no call is in progress and the device is Playing with a timed
\* duration, a thread of that playback is pending: created, not finished
\* and not asked to cancel.
C19_TimedPlayingHasTask ==
  (pc = "idle" /\ is_playing = 1 /\ duration # DURATION_KEEP)
     => \E i \in Slots : Armed(i) /\ threads[i].cur

\* play() fails in this step: it returns an error, or its pthread_create
\* (line 245) creates no thread.
PlayFails ==
  \/ /\ pc \in {"play_check", "play_gpio", "play_arm", "play_set"}
     /\ pc' = "idle" /\ ret' # "E_SUCCESS"
  \/ /\ pc = "play_arm" /\ arg # DURATION_KEEP
     /\ threads' = threads

====
